---- MODULE Spec2Model ----
(***************************************************************************)
(* Model of src/cadjpy_nzdjpy_monitor.py: the ForexPairsMonitor object,    *)
(* one run_analysis cycle (download_data, calculate_cointegration,         *)
(* calculate_regression_and_spread, calculate_zscore,                      *)
(* check_trading_signals, generate_position_sizing), main(), and the       *)
(* run_continuous_monitoring loop with its two exception handlers.         *)
(*                                                                         *)
(* Numbers.  Spread values, means and standard deviations are integers in  *)
(* an arbitrary unit.  A z-score is kept exactly, as the quotient n/d it   *)
(* was computed from, or as one of the IEEE-754 results of a division by   *)
(* zero (numpy.float64 division does not raise):                           *)
(*     [k |-> "fin", n, d]  the number n/d, d > 0                          *)
(*     [k |-> "inf", n, d]  +infinity (n = 1) or -infinity (n = -1)         *)
(*     [k |-> "nan", ...]   not-a-number                                   *)
(*     [k |-> "none", ...]  Python's None                                  *)
(* An optional scalar is a sequence: << >> is None, <<v>> is the value v.  *)
(***************************************************************************)
EXTENDS Integers, Sequences, FiniteSets

VARIABLES
    \* ---- ForexPairsMonitor fields (lines 39-42)
    hedge_ratio, spread_mean, spread_std, last_zscore,
    \* ---- locals of the current or latest run_analysis call (lines 223-236)
    data, is_cointegrated, spread, zscore,
    \* ---- console output of the current cycle (lines 159-215)
    category, multiplier,
    \* ---- control
    pc,                \* position in main / run_continuous_monitoring / run_analysis
    mode,              \* "single" (main line 280) or "continuous" (line 289/292)
    interval_minutes,  \* argument of run_continuous_monitoring
    success,           \* value returned by the current run_analysis call
    stop_cause,        \* which handler ended the loop (lines 265-268)
    stopped_at,        \* pc at which the loop or the process was ended
    wait,              \* argument of the last time.sleep call (line 263)
    \* ---- observation of the current cycle
    aligned_len,       \* len(aligned_data) seen at line 78
    ran,               \* stage functions called so far in this cycle
    raised,            \* stage functions whose except-branch ran in this cycle
    written            \* monitor fields assigned so far in this cycle

fields == <<hedge_ratio, spread_mean, spread_std, last_zscore>>
locals == <<data, is_cointegrated, spread, zscore>>
output == <<category, multiplier>>
loop   == <<mode, interval_minutes, stop_cause, stopped_at, wait>>
cycle  == <<aligned_len, ran, raised, written>>
vars   == <<fields, locals, output, pc, success, loop, cycle>>

----------------------------------------------------------------------------
\* Bounds of the model
MaxDate     == 101   \* trading days in the lookback window
MaxGap      == 1     \* leading days missing from the second series
MaxStd      == 5     \* spread standard deviations 0..MaxStd
MaxDev      == 5     \* |latest spread - mean| <= MaxDev
MaxInterval == 0     \* intervals typed at the prompt: -1..MaxInterval
HedgeVals   == {1, 2}   \* hedge ratios a fit may give
MeanVals    == {0, 1}   \* spread means a fit may give

\* Program constants
MinRows          == 100  \* line 78
StrongLevel      == 2    \* lines 166, 171
SignalLevel      == 1    \* lines 177, 181, 201
AlertTenths      == 8    \* alert_threshold = 0.8, line 36
Tenths           == 10   \* denominator of alert_threshold, line 36
SizeCap          == 3    \* line 203
SizeDivisor      == 3    \* line 204
DefaultInterval  == 60   \* line 292
SecondsPerMinute == 60   \* line 263

None == << >>
Some(v) == <<v>>

----------------------------------------------------------------------------
\* Floating-point values and their comparisons

Fin(n, d) == [k |-> "fin", n |-> n, d |-> d]
PosInf    == [k |-> "inf", n |-> 1, d |-> 0]
NegInf    == [k |-> "inf", n |-> -1, d |-> 0]
NaN       == [k |-> "nan", n |-> 0, d |-> 0]
NoneZ     == [k |-> "none", n |-> 0, d |-> 0]

AbsInt(i) == IF i < 0 THEN -i ELSE i

\* abs(z): NaN stays NaN, both infinities become +infinity
AbsZ(z) == [z EXCEPT !.n = AbsInt(z.n)]

\* z >= p/q, z <= p/q, z > p/q  (q > 0); every comparison with NaN is false
GE(z, p, q) ==
    CASE z.k = "fin" -> z.n * q >= p * z.d
      [] z.k = "inf" -> z.n > 0
      [] OTHER       -> FALSE
LE(z, p, q) ==
    CASE z.k = "fin" -> z.n * q <= p * z.d
      [] z.k = "inf" -> z.n < 0
      [] OTHER       -> FALSE
GT(z, p, q) ==
    CASE z.k = "fin" -> z.n * q > p * z.d
      [] z.k = "inf" -> z.n > 0
      [] OTHER       -> FALSE

\* x / y on numpy.float64 (line 150): a zero divisor gives nan or +-inf
Divide(x, y) ==
    IF y # 0 THEN Fin(x, y)
    ELSE IF x > 0 THEN PosInf
    ELSE IF x < 0 THEN NegInf
    ELSE NaN

----------------------------------------------------------------------------
\* The stage functions, as functions of their inputs

\* The raw series are the sets of dates on which each instrument has a
\* non-null Close (the per-series dropna of lines 66-67): the first series
\* ends at aEnd, the second begins at bStart.
Dates == 1..MaxDate
Series1(aEnd)   == {t \in Dates : t <= aEnd}
Series2(bStart) == {t \in Dates : t >= bStart}

\* pd.DataFrame({...}).dropna(): the dates present in both series
AlignedData(cadjpy, nzdjpy) == cadjpy \cap nzdjpy

\* (mutant) the row check written with <= instead of <
download_data_le(fetched, cadjpy, nzdjpy) ==
    IF ~fetched THEN None
    ELSE IF Cardinality(AlignedData(cadjpy, nzdjpy)) <= MinRows THEN None
    ELSE Some(Cardinality(AlignedData(cadjpy, nzdjpy)))

\* download_data: None when yf.download raised or when fewer than 100
\* aligned rows remain (the ValueError of line 79 is caught at line 84);
\* otherwise the aligned table, kept as its number of rows.
download_data(fetched, cadjpy, nzdjpy) ==
    IF ~fetched THEN None
    ELSE IF Cardinality(AlignedData(cadjpy, nzdjpy)) < MinRows THEN None
    ELSE Some(Cardinality(AlignedData(cadjpy, nzdjpy)))

\* calculate_cointegration: what coint() did, and the flag returned
CointOutcomes == {"p_lt_005", "p_ge_005", "raises"}
calculate_cointegration(c) == (c = "p_lt_005")

\* (mutant) run_analysis returning False when the pair is not cointegrated
AfterCointegrationGated(coint) == IF coint THEN "regress" ELSE "returned"

\* run_analysis, lines 228-231: the flag is unpacked and never read
AfterCointegration(coint) == "regress"

\* calculate_regression_and_spread: the fields assigned before the function
\* returns.  "fit_raises": OLS(...).fit() raises at line 121; "no_const":
\* model.params['const'] raises at line 125, after line 124 stored the
\* hedge ratio; "ok": lines 124, 130 and 131 all ran.
RegressionWrites(kind) ==
    CASE kind = "ok"       -> {"hedge_ratio", "spread_mean", "spread_std"}
      [] kind = "no_const" -> {"hedge_ratio"}
      [] OTHER             -> {}

\* (mutant) the except-branch of line 142 handing back a spread
SpreadReturnedOnError(kind, cur) ==
    IF kind = "fit_raises" THEN None ELSE Some(cur)

\* calculate_regression_and_spread: the value returned, the spread (kept as
\* its latest value, spread.iloc[-1]) at line 140 or None at line 144
SpreadReturned(kind, cur) ==
    IF kind = "ok" THEN Some(cur) ELSE None

\* The results a fit over n rows can give.  A sample of n values with
\* standard deviation s has every value within s*(n-1)/sqrt(n) of its mean,
\* so a zero deviation forces the latest value to equal the mean.
WithinSample(dv, s, n) == dv * dv * n <= (n - 1) * (n - 1) * s * s
FitOutcomes(n) ==
    { o \in [kind : {"ok"}, hedge : HedgeVals, mean : MeanVals,
             std : 0..MaxStd, cur : (-MaxDev)..(MaxDev + 1)] :
        /\ AbsInt(o.cur - o.mean) <= MaxDev
        /\ WithinSample(o.cur - o.mean, o.std, n) }
    \cup { [kind |-> "no_const", hedge |-> h, mean |-> 0, std |-> 0, cur |-> 0] :
             h \in HedgeVals }
    \cup { [kind |-> "fit_raises", hedge |-> 1, mean |-> 0, std |-> 0, cur |-> 0] }

\* (mutant) dividing by the variance instead of the standard deviation
calculate_zscore_var(current_spread, mean, std) ==
    Divide(current_spread - mean, std * std)

\* calculate_zscore, line 150
calculate_zscore(current_spread, mean, std) ==
    Divide(current_spread - mean, std)

\* (mutant) the regular signals tested with > and < instead of >= and <=
check_trading_signals_open(z) ==
    IF GE(z, StrongLevel, 1) THEN "StrongShort"
    ELSE IF LE(z, -StrongLevel, 1) THEN "StrongLong"
    ELSE IF GT(z, SignalLevel, 1) THEN "Short"
    ELSE IF ~GE(z, -SignalLevel, 1) /\ z.k # "nan" THEN "Long"
    ELSE IF GE(AbsZ(z), AlertTenths, Tenths)
         THEN (IF GT(z, 0, 1) THEN "ApproachingShort" ELSE "ApproachingLong")
    ELSE "Neutral"

\* check_trading_signals, lines 166-195: the branch taken
check_trading_signals(z) ==
    IF GE(z, StrongLevel, 1) THEN "StrongShort"
    ELSE IF LE(z, -StrongLevel, 1) THEN "StrongLong"
    ELSE IF GE(z, SignalLevel, 1) THEN "Short"
    ELSE IF LE(z, -SignalLevel, 1) THEN "Long"
    ELSE IF GE(AbsZ(z), AlertTenths, Tenths)
         THEN (IF GT(z, 0, 1) THEN "ApproachingShort" ELSE "ApproachingLong")
    ELSE "Neutral"

\* min(abs(zscore), 3.0), line 203
BaseSize(z) == IF GE(AbsZ(z), SizeCap, 1) THEN Fin(SizeCap, 1) ELSE AbsZ(z)

\* (mutant) the cap of line 203 left out
generate_position_sizing_nocap(z) ==
    IF GE(AbsZ(z), SignalLevel, 1)
    THEN Some(Fin(AbsZ(z).n, AbsZ(z).d * SizeDivisor))
    ELSE None

\* generate_position_sizing, lines 201-204: the multiplier printed, or None
\* when nothing is printed
generate_position_sizing(z) ==
    IF GE(AbsZ(z), SignalLevel, 1)
    THEN Some(Fin(BaseSize(z).n, BaseSize(z).d * SizeDivisor))
    ELSE None

----------------------------------------------------------------------------
\* The state machine

Live == {"download", "coint", "regress", "zscore", "signals", "sizing",
         "returned", "sleeping"}
InCycle == {"download", "coint", "regress", "zscore", "signals", "sizing"}

\* ForexPairsMonitor.__init__ (lines 39-42), then main() enters its single
\* run_analysis call (line 280)
Init ==
    /\ hedge_ratio = None /\ spread_mean = None /\ spread_std = None
    /\ last_zscore = NoneZ
    /\ data = None /\ is_cointegrated = None /\ spread = None /\ zscore = NoneZ
    /\ category = "None" /\ multiplier = None
    /\ pc = "download" /\ mode = "single" /\ success = "None"
    /\ interval_minutes = DefaultInterval
    /\ stop_cause = "none" /\ stopped_at = "none" /\ wait = None
    /\ aligned_len = None /\ ran = {} /\ raised = {} /\ written = {}

\* run_analysis returns
Return(value) ==
    /\ pc' = "returned"
    /\ success' = value

\* a new run_analysis call begins (line 219)
EnterRunAnalysis ==
    /\ pc' = "download"
    /\ success' = "None"
    /\ data' = None /\ is_cointegrated' = None /\ spread' = None
    /\ zscore' = NoneZ
    /\ category' = "None" /\ multiplier' = None
    /\ aligned_len' = None /\ ran' = {} /\ raised' = {} /\ written' = {}

\* Step 1, lines 223-225
DownloadData ==
    /\ pc = "download"
    /\ \E fetched \in BOOLEAN, aEnd \in 0..MaxDate, bStart \in 1..(MaxGap + 1) :
         LET cadjpy == Series1(aEnd)
             nzdjpy == Series2(bStart)
             d      == download_data(fetched, cadjpy, nzdjpy)
         IN  /\ aligned_len' = IF fetched
                               THEN Some(Cardinality(AlignedData(cadjpy, nzdjpy)))
                               ELSE None
             /\ ran' = ran \cup {"download_data"}
             /\ IF d = None
                THEN /\ raised' = raised \cup {"download_data"}
                     /\ Return("False")
                ELSE /\ pc' = "coint"
                     /\ UNCHANGED <<raised, success>>
             /\ data' = d
    /\ UNCHANGED <<is_cointegrated, spread, zscore>>
    /\ UNCHANGED <<fields, output, loop, written>>

\* Step 2, line 228
CalculateCointegration ==
    /\ pc = "coint"
    /\ \E c \in CointOutcomes :
         LET flag == calculate_cointegration(c)
             nxt  == AfterCointegration(flag)
         IN  /\ is_cointegrated' = Some(flag)
             /\ raised' = IF c = "raises"
                          THEN raised \cup {"calculate_cointegration"}
                          ELSE raised
             /\ pc' = nxt
    /\ ran' = ran \cup {"calculate_cointegration"}
    /\ UNCHANGED <<fields, output, loop, success, data, spread, zscore,
                   aligned_len, written>>

\* Step 3, lines 231-233
CalculateRegressionAndSpread ==
    /\ pc = "regress"
    /\ \E o \in FitOutcomes(data[1]) :
         LET w  == RegressionWrites(o.kind)
             sp == SpreadReturned(o.kind, o.cur)
         IN  /\ hedge_ratio' = IF "hedge_ratio" \in w THEN Some(o.hedge) ELSE hedge_ratio
             /\ spread_mean' = IF "spread_mean" \in w THEN Some(o.mean) ELSE spread_mean
             /\ spread_std'  = IF "spread_std" \in w THEN Some(o.std) ELSE spread_std
             /\ written' = written \cup w
             /\ raised' = IF o.kind = "ok" THEN raised
                          ELSE raised \cup {"calculate_regression_and_spread"}
             /\ spread' = sp
             /\ IF sp = None
                THEN Return("False")
                ELSE pc' = "zscore" /\ UNCHANGED success
    /\ UNCHANGED <<data, is_cointegrated, zscore>>
    /\ ran' = ran \cup {"calculate_regression_and_spread"}
    /\ UNCHANGED <<last_zscore, output, loop, aligned_len>>

\* Step 4, lines 236-238.  Arithmetic on a field that is still None raises
\* TypeError, caught at line 155.
CalculateZscore ==
    /\ pc = "zscore"
    /\ LET z == IF spread_mean = None \/ spread_std = None
                THEN NoneZ
                ELSE calculate_zscore(spread[1], spread_mean[1], spread_std[1])
       IN  IF z = NoneZ
           THEN /\ raised' = raised \cup {"calculate_zscore"}
                /\ zscore' = NoneZ
                /\ Return("False")
                /\ UNCHANGED <<last_zscore, written>>
           ELSE /\ last_zscore' = z
                /\ zscore' = z
                /\ written' = written \cup {"last_zscore"}
                /\ pc' = "signals"
                /\ UNCHANGED <<raised, success>>
    /\ UNCHANGED <<data, is_cointegrated, spread>>
    /\ ran' = ran \cup {"calculate_zscore"}
    /\ UNCHANGED <<hedge_ratio, spread_mean, spread_std, output, loop, aligned_len>>

\* Step 5, line 241
CheckTradingSignals ==
    /\ pc = "signals"
    /\ category' = check_trading_signals(zscore)
    /\ ran' = ran \cup {"check_trading_signals"}
    /\ pc' = "sizing"
    /\ UNCHANGED <<fields, locals, multiplier, success, loop, aligned_len, raised, written>>

\* Step 6 and the return, lines 244-247
GeneratePositionSizing ==
    /\ pc = "sizing"
    /\ multiplier' = generate_position_sizing(zscore)
    /\ ran' = ran \cup {"generate_position_sizing"}
    /\ Return("True")
    /\ UNCHANGED <<fields, locals, category, loop, aligned_len, raised, written>>

\* main, lines 284-294: the answer is not y/yes
MainDecline ==
    /\ pc = "returned" /\ mode = "single"
    /\ pc' = "exit"
    /\ UNCHANGED <<fields, locals, output, success, loop, cycle>>

\* main, lines 286-292: int(input(...) or "60"), 60 again when int() raises
\* ValueError; run_continuous_monitoring then makes its first run_analysis call
MainContinuous ==
    /\ pc = "returned" /\ mode = "single"
    /\ \E valid \in BOOLEAN, typed \in (-1)..MaxInterval :
         interval_minutes' = IF valid THEN typed ELSE DefaultInterval
    /\ mode' = "continuous"
    /\ EnterRunAnalysis
    /\ UNCHANGED <<fields, stop_cause, stopped_at, wait>>

\* run_continuous_monitoring, lines 257-263: time.sleep accepts the argument
Sleep ==
    /\ pc = "returned" /\ mode = "continuous"
    /\ interval_minutes * SecondsPerMinute >= 0
    /\ wait' = Some(interval_minutes * SecondsPerMinute)
    /\ pc' = "sleeping"
    /\ UNCHANGED <<fields, locals, output, success, cycle,
                   mode, interval_minutes, stop_cause, stopped_at>>

\* lines 263, 267-268: time.sleep raises ValueError on a negative argument;
\* the handler prints the error and run_continuous_monitoring returns
SleepRaises ==
    /\ pc = "returned" /\ mode = "continuous"
    /\ interval_minutes * SecondsPerMinute < 0
    /\ pc' = "stopped"
    /\ stop_cause' = "error"
    /\ stopped_at' = pc
    /\ UNCHANGED <<fields, locals, output, success, cycle,
                   mode, interval_minutes, wait>>

\* lines 255-256: the sleep is over, the next iteration calls run_analysis
WakeUp ==
    /\ pc = "sleeping"
    /\ EnterRunAnalysis
    /\ UNCHANGED <<fields, loop>>

\* SIGINT: KeyboardInterrupt is raised wherever the main thread is.  It is
\* not an Exception, so no handler inside run_analysis catches it; in
\* run_continuous_monitoring line 265 does, elsewhere main() has no handler.
Interrupt ==
    /\ pc \in Live
    /\ stopped_at' = pc
    /\ IF mode = "continuous"
       THEN pc' = "stopped" /\ stop_cause' = "interrupt"
       ELSE pc' = "killed" /\ stop_cause' = "uncaught"
    /\ UNCHANGED <<fields, locals, output, success, cycle, mode, interval_minutes, wait>>

Next ==
    \/ DownloadData
    \/ CalculateCointegration
    \/ CalculateRegressionAndSpread
    \/ CalculateZscore
    \/ CheckTradingSignals
    \/ GeneratePositionSizing
    \/ MainDecline
    \/ MainContinuous
    \/ Sleep
    \/ SleepRaises
    \/ WakeUp
    \/ Interrupt

Spec == Init /\ [][Next]_vars

----------------------------------------------------------------------------
\* Properties

Fitted == {"hedge_ratio", "spread_mean", "spread_std", "last_zscore"}
SignalStages == {"check_trading_signals", "generate_position_sizing"}

\* C1: check_trading_signals puts every z-score in exactly one category, by
\* first match: z >= 2.0 StrongShort, else z <= -2.0 StrongLong, else
\* z >= 1.0 Short, else z <= -1.0 Long, else |z| >= 0.8 ApproachingShort
\* (z > 0) or ApproachingLong (z < 0), else Neutral; every boundary belongs
\* to the signal side (1.0 is Short, 2.0 StrongShort, -1.0 Long, -2.0
\* StrongLong).
SignalClassification ==
    "check_trading_signals" \in ran =>
        LET z == last_zscore
        IN  /\ (category = "StrongShort") <=> GE(z, 2, 1)
            /\ (category = "StrongLong")  <=> LE(z, -2, 1)
            /\ (category = "Short")  <=> (GE(z, 1, 1) /\ ~GE(z, 2, 1))
            /\ (category = "Long")   <=> (LE(z, -1, 1) /\ ~LE(z, -2, 1))
            /\ (category = "ApproachingShort") <=> (GE(z, 8, 10) /\ ~GE(z, 1, 1))
            /\ (category = "ApproachingLong")  <=> (LE(z, -8, 10) /\ ~LE(z, -1, 1))
            /\ (category = "Neutral") <=> ~(GE(z, 8, 10) \/ LE(z, -8, 10))

\* a z-score of exactly 1.0 has been classified, as Short
SignalClassificationWitness ==
    /\ "check_trading_signals" \in ran
    /\ last_zscore.k = "fin" /\ last_zscore.n = last_zscore.d
    /\ category = "Short"

\* C2: generate_position_sizing prints a recommendation only when
\* |z| >= 1.0; the multiplier is then min(|z|, 3.0) / 3.0: it lies in
\* (0, 1], is 1.0 for every |z| >= 3.0, and never decreases as |z| grows.
PositionSizing ==
    "generate_position_sizing" \in ran =>
        LET a == AbsZ(last_zscore)
        IN  /\ (multiplier # None) <=> GE(a, 1, 1)
            /\ multiplier # None =>
                 LET m == multiplier[1]
                 IN  /\ m.k = "fin" /\ m.n > 0 /\ m.d > 0 /\ m.n <= m.d
                     /\ GE(a, 3, 1) => m.n = m.d
                     /\ (~GE(a, 3, 1)) => m.n * 3 * a.d = a.n * m.d
                     /\ \A n2 \in 0..(3 * MaxDev), d2 \in 1..MaxStd :
                          LET m2 == generate_position_sizing(Fin(n2, d2))
                          IN  (GE(Fin(n2, d2), 1, 1) /\ a.k = "fin" /\ a.n * d2 <= n2 * a.d)
                              => m.n * m2[1].d <= m2[1].n * m.d

\* a z-score strictly beyond 3.0 in magnitude has been sized at 1.0
PositionSizingWitness ==
    /\ "generate_position_sizing" \in ran
    /\ last_zscore.k = "fin" /\ AbsInt(last_zscore.n) > 3 * last_zscore.d
    /\ multiplier # None /\ multiplier[1].n = multiplier[1].d

\* the scenario of C3: the stages have run on a spread with mean 0, standard
\* deviation 2 and latest value 4
Scenario ==
    /\ "generate_position_sizing" \in ran
    /\ spread = Some(4) /\ spread_mean = Some(0) /\ spread_std = Some(2)

\* C3 (as stated): for a spread with mean 0, standard deviation 2 and latest
\* value 4.0 the pipeline gives zscore = 2.0, category StrongShort and
\* position multiplier 1.0.
ScenarioAsStated ==
    Scenario =>
        /\ last_zscore.k = "fin" /\ last_zscore.n = 2 * last_zscore.d
        /\ category = "StrongShort"
        /\ multiplier # None /\ multiplier[1].n = multiplier[1].d

\* C3 (amended): for a spread with mean 0, standard deviation 2 and latest
\* value 4.0 the pipeline gives zscore = 2.0, category StrongShort and
\* position multiplier 2/3.
ScenarioAmended ==
    Scenario =>
        /\ last_zscore.k = "fin" /\ last_zscore.n = 2 * last_zscore.d
        /\ category = "StrongShort"
        /\ multiplier # None /\ 3 * multiplier[1].n = 2 * multiplier[1].d

\* the scenario has run to the end of a successful cycle
ScenarioWitness == Scenario /\ success = "True"

\* C4: when the spread's standard deviation is zero, calculate_zscore fails
\* instead of dividing: the cycle is reported failed and neither
\* check_trading_signals nor generate_position_sizing runs on an infinite or
\* NaN z-score.
ZeroDeviationFails ==
    /\ ("calculate_zscore" \in ran /\ spread_std = Some(0)) =>
          /\ "calculate_zscore" \in raised
          /\ success = "False"
          /\ ran \cap SignalStages = {}
    /\ (ran \cap SignalStages # {}) => last_zscore.k = "fin"

\* C5: with fewer than 100 aligned rows the aligner fails and the cycle ends
\* before estimation: run_analysis returns False, neither
\* calculate_cointegration nor calculate_regression_and_spread runs, nothing
\* is printed by the later stages, and no fitted field is assigned; with 100
\* rows or more the aligner returns the table.
InsufficientDataState ==
    /\ (aligned_len # None /\ aligned_len[1] < 100) =>
          /\ pc \notin InCycle
          /\ success = "False"
          /\ data = None
          /\ ran = {"download_data"}
          /\ written = {}
          /\ category = "None" /\ multiplier = None
    /\ (aligned_len # None /\ aligned_len[1] >= 100) =>
          /\ data = aligned_len
          /\ "download_data" \notin raised
InsufficientDataStep ==
    (aligned_len' # None /\ aligned_len'[1] < 100) => fields' = fields
InsufficientDataAborts == []InsufficientDataState /\ [][InsufficientDataStep]_vars

\* a cycle with 99 aligned rows has ended, after an earlier cycle had fitted
\* every field
InsufficientDataWitness ==
    /\ aligned_len = Some(99)
    /\ pc = "returned"
    /\ hedge_ratio # None /\ spread_std # None /\ last_zscore # NoneZ

\* C6: any computation failure in the estimator, in the cointegration test or
\* in the regression, aborts the cycle: run_analysis returns False and no
\* signal or position sizing is produced in that cycle.
EstimatorFailureAborts ==
    (raised \cap {"calculate_cointegration", "calculate_regression_and_spread"} # {}) =>
        /\ success # "True"
        /\ ran \cap SignalStages = {}
        /\ category = "None" /\ multiplier = None

\* C7: in continuous mode nothing but an interrupt ends the loop: after every
\* cycle, failed or not, the loop sleeps interval_minutes * 60 seconds and
\* then starts another cycle.
LoopSurvivesEveryCycle ==
    /\ pc = "stopped" => stop_cause = "interrupt"
    /\ pc = "sleeping" => wait = Some(interval_minutes * 60)

\* C8: an interrupt ends continuous monitoring only between cycles: a cycle
\* that has started runs to its end before the loop stops, so the monitor is
\* never stopped with hedge_ratio, spread_mean and spread_std assigned and
\* last_zscore not.
InterruptOnlyBetweenCycles ==
    stop_cause = "interrupt" =>
        /\ stopped_at \notin InCycle
        /\ success # "None"
        /\ ({"hedge_ratio", "spread_mean", "spread_std"} \subseteq written
              => "last_zscore" \in written)

\* C9: the cointegration result does not gate the pipeline: whatever the
\* test returns the next stage is the regression, no cycle is reported
\* failed on account of it, and the stages after it leave it unread.
NoCointegrationGateState ==
    /\ success = "False" =>
          raised \cap {"download_data", "calculate_regression_and_spread",
                       "calculate_zscore"} # {}
    /\ (success = "True" /\ pc = "returned") =>
          /\ is_cointegrated \in {Some(TRUE), Some(FALSE)}
          /\ ran = {"download_data", "calculate_cointegration",
                    "calculate_regression_and_spread", "calculate_zscore",
                    "check_trading_signals", "generate_position_sizing"}
NoCointegrationGateStep ==
    (pc = "coint" /\ pc' \in Live) => pc' = "regress"
NoCointegrationGate ==
    []NoCointegrationGateState /\ [][NoCointegrationGateStep]_vars

\* a signal and a sizing were produced in a cycle whose test did not find
\* cointegration
NoCointegrationGateWitness ==
    /\ is_cointegrated = Some(FALSE)
    /\ success = "True"
    /\ category = "StrongShort" /\ multiplier # None

\* C10: whenever a cycle emits a signal, hedge_ratio, spread_mean, spread_std
\* and the z-score it uses were all assigned earlier in that same cycle, from
\* that cycle's aligned data; nothing left by an earlier cycle is used.
FreshParameters ==
    (ran \cap SignalStages # {}) =>
        /\ Fitted \subseteq written
        /\ data # None /\ spread # None
        /\ zscore = last_zscore
        /\ last_zscore = Divide(spread[1] - spread_mean[1], spread_std[1])

\* a later cycle of the continuous loop has emitted a signal
FreshParametersWitness ==
    /\ mode = "continuous" /\ wait # None
    /\ "check_trading_signals" \in ran
    /\ pc = "sizing"

====
